---- MODULE Spec2Model ----
(***************************************************************************)
(* Rebuild pipeline of unplugin-vue-i18n-dts-generation:                   *)
(*   - RebuildManager (src/core/rebuild-manager.ts): debouncedRebuild,     *)
(*     rebuild, invalidateModule, setServer, setEnv;                       *)
(*   - the plugin's hot-update dispatcher and virtual-module loader, as    *)
(*     exercised by the hot-update test suite.                             *)
(* Time is in milliseconds.  Three specifications share the state:         *)
(*   Spec           the debounce machine under timed triggers;             *)
(*   SpecPipeline   direct rebuilds under every wiring and logger;         *)
(*   SpecHotUpdate  file edits and hot-update dispatch per context.        *)
(***************************************************************************)
EXTENDS Integers, Sequences, FiniteSets, TLC

\* ------------------------------------------------------------------------
\* Program constants
\* ------------------------------------------------------------------------
DEBOUNCE_MS == 300
MAX_WAIT_MS == 2000

\* ------------------------------------------------------------------------
\* Bounds of the model
\* ------------------------------------------------------------------------
\* Date.now() when the dev session starts (any positive epoch value).
StartTime == 1
\* Horizon of the clock.
MaxTime == 2700
\* debouncedRebuild calls per behaviour.
MaxCalls == 9
\* rebuild() executions per behaviour (each hot-update dispatch runs one).
MaxRebuilds == 2
\* Edits of the locale file per behaviour.
MaxEdits == 2

\* ------------------------------------------------------------------------
\* JSON values: a string scalar, or an object whose members are kept in
\* insertion order (the order JS enumerates non-numeric string keys).
\* ------------------------------------------------------------------------
Str(s) == [t |-> "s", v |-> s, kv |-> <<>>]
Obj(members) == [t |-> "o", v |-> "", kv |-> members]
KV(key, val) == [k |-> key, val |-> val]
IsObj(j) == j.t = "o"

\* Message keys in code-unit order (upper case sorts before lower case).
KeyOrder == <<"Bye", "Greeting", "en", "message">>
Rank(key) == CHOOSE i \in 1..Len(KeyOrder) : KeyOrder[i] = key

Perms(n) == {p \in [1..n -> 1..n] : \A i, j \in 1..n : p[i] = p[j] => i = j}

\* Position at which the member of rank-sorted position i sits in kv.
SortedPerm(kv) ==
    CHOOSE p \in Perms(Len(kv)) :
        \A i, j \in 1..Len(kv) : i < j => Rank(kv[p[i]].k) < Rank(kv[p[j]].k)

RECURSIVE canonicalize(_)
canonicalize(j) ==
    IF ~IsObj(j) THEN j
    ELSE LET p == SortedPerm(j.kv)
         IN Obj([i \in 1..Len(j.kv) |->
                   KV(j.kv[p[i]].k, canonicalize(j.kv[p[i]].val))])

\* JSON text is a sequence of tokens: punctuation or a quoted string.
Punct(c) == [q |-> FALSE, s |-> c]
Quoted(s) == [q |-> TRUE, s |-> s]

RECURSIVE JSONStringify(_)
RECURSIVE StringifyMembers(_, _)
StringifyMembers(kv, i) ==
    IF i > Len(kv) THEN <<>>
    ELSE (IF i > 1 THEN <<Punct(",")>> ELSE <<>>)
         \o <<Quoted(kv[i].k), Punct(":")>>
         \o JSONStringify(kv[i].val)
         \o StringifyMembers(kv, i + 1)
JSONStringify(j) ==
    IF ~IsObj(j) THEN <<Quoted(j.v)>>
    ELSE <<Punct("{")>> \o StringifyMembers(j.kv, 1) \o <<Punct("}")>>

\* JSON.parse by recursive descent: [ok, val, next] from position i.
ParseError == [ok |-> FALSE, val |-> Str(""), next |-> 0]
RECURSIVE ParseValue(_, _)
RECURSIVE ParseMembers(_, _, _)
ParseMembers(toks, i, acc) ==
    IF i + 1 > Len(toks) \/ ~toks[i].q \/ toks[i + 1] # Punct(":") THEN ParseError
    ELSE LET r == ParseValue(toks, i + 2)
         IN IF ~r.ok \/ r.next > Len(toks) THEN ParseError
            ELSE LET acc2 == Append(acc, KV(toks[i].s, r.val))
                 IN IF toks[r.next] = Punct("}")
                    THEN [ok |-> TRUE, val |-> Obj(acc2), next |-> r.next + 1]
                    ELSE IF toks[r.next] = Punct(",")
                    THEN ParseMembers(toks, r.next + 1, acc2)
                    ELSE ParseError
ParseValue(toks, i) ==
    IF i > Len(toks) THEN ParseError
    ELSE IF toks[i].q THEN [ok |-> TRUE, val |-> Str(toks[i].s), next |-> i + 1]
    ELSE IF toks[i] # Punct("{") THEN ParseError
    ELSE IF i + 1 <= Len(toks) /\ toks[i + 1] = Punct("}")
    THEN [ok |-> TRUE, val |-> Obj(<<>>), next |-> i + 2]
    ELSE ParseMembers(toks, i + 1, <<>>)

JSONParse(toks) ==
    LET r == ParseValue(toks, 1)
    IN IF r.ok /\ r.next = Len(toks) + 1 THEN r ELSE ParseError

\* plugin.load(resolvedVirtualJsonId): export default <jsonText>;
LoadVirtualModule(jsonText) ==
    <<Punct("export default")>> \o jsonText \o <<Punct(";")>>

\* The suite's helper: strip "export default" and the trailing ";", JSON.parse.
parseExportedMessages(code) ==
    IF Len(code) < 2 \/ code[1] # Punct("export default") THEN ParseError
    ELSE LET body == SubSeq(code, 2, Len(code))
             text == IF body[Len(body)] = Punct(";")
                     THEN SubSeq(body, 1, Len(body) - 1) ELSE body
         IN JSONParse(text)

\* Value at a path of keys, Str("") when absent.
RECURSIVE GetPath(_, _)
GetPath(j, path) ==
    IF path = <<>> THEN j
    ELSE IF ~IsObj(j) \/ ~\E i \in 1..Len(j.kv) : j.kv[i].k = Head(path) THEN Str("")
    ELSE LET i == CHOOSE n \in 1..Len(j.kv) : j.kv[n].k = Head(path)
         IN GetPath(j.kv[i].val, Tail(path))

\* Every insertion order of the same unordered tree.
RECURSIVE Orderings(_)
Orderings(j) ==
    IF ~IsObj(j) THEN {j}
    ELSE LET n == Len(j.kv)
             subs == UNION {Orderings(j.kv[i].val) : i \in 1..n}
         IN {Obj([i \in 1..n |-> KV(j.kv[p[i]].k, c[p[i]])]) :
               p \in Perms(n),
               c \in {f \in [1..n -> subs] : \A i \in 1..n : f[i] \in Orderings(j.kv[i].val)}}

\* ------------------------------------------------------------------------
\* The locale files on disk and what readAndGroup returns for them
\* ------------------------------------------------------------------------
GreetingText(n) == IF n = 0 THEN "Hi" ELSE "Hello from Vitest " \o ToString(n)
GreetingPath == <<"en", "Greeting", "message">>

\* disk = [ver]: the number of saves so far; each save of en.json writes a new
\* greeting, a second file contributes en.Bye.  readAndGroup is drawn from every
\* insertion order of the tree on disk at the time it resolves.
DiskTree(d) ==
    Obj(<<KV("en", Obj(<<KV("Greeting", Obj(<<KV("message", Str(GreetingText(d.ver)))>>)),
                         KV("Bye", Str("Ciao"))>>))>>)

\* readAndGroup(): the merged tree, keys in file-discovery order.
readAndGroup(d) == Orderings(DiskTree(d))

\* ------------------------------------------------------------------------
\* Module-graph nodes
\* ------------------------------------------------------------------------
VirtualId == <<"virtual:vue-i18n-types", "/messages">>
ModTest == [hasId |-> TRUE, id |-> <<"virtual:vue-i18n-types">>]
ModVirtual == [hasId |-> TRUE, id |-> VirtualId \o <<"?t=1">>]
ModNoId == [hasId |-> FALSE, id |-> <<>>]
TestModules == <<ModTest>>
WatchedModules == <<ModTest, ModVirtual>>
ModuleLists == {<<ModTest, ModNoId>>, WatchedModules}

\* String.prototype.includes
Includes(s, sub) ==
    \E i \in 0..(Len(s) - Len(sub)) : SubSeq(s, i + 1, i + Len(sub)) = sub

RECURSIVE Filter(_, _)
Filter(mods, vid) ==
    IF mods = <<>> THEN <<>>
    ELSE (IF Head(mods).hasId /\ Includes(Head(mods).id, vid) THEN <<Head(mods)>> ELSE <<>>)
         \o Filter(Tail(mods), vid)

\* ------------------------------------------------------------------------
\* State
\* ------------------------------------------------------------------------
VARIABLES
    now,                \* Date.now()
    lastRebuildCall,    \* RebuildManager.lastRebuildCall (0 = no pending window)
    rebuildTimer,       \* RebuildManager.rebuildTimer: the one armed setTimeout
    serverRef,          \* RebuildManager.serverRef is set
    resolvedVirtualId,  \* RebuildManager.resolvedVirtualId (<<>> = unset or "")
    environment,        \* RebuildManager.environment
    logger,             \* options.logger: "none", "ok", or "faulty" (calls may throw)
    promises,           \* promise of each debouncedRebuild call, by call number
    windowCalls,        \* calls made in the pending window
    burst,              \* the current run of calls closer together than DEBOUNCE_MS
    rebuilds,           \* every rebuild() execution, in start order
    cache,              \* the RebuildCache written by onRebuildComplete
    disk,               \* the locale files
    dispatches          \* every hot-update dispatch

vars == <<now, lastRebuildCall, rebuildTimer, serverRef, resolvedVirtualId, environment,
          logger, promises, windowCalls, burst, rebuilds, cache, disk, dispatches>>

NoTimer == [armed |-> FALSE, due |-> 0, call |-> 0, modules |-> <<>>]
NoEnv == [set |-> FALSE, graph |-> FALSE, hot |-> FALSE]
Envs == {[set |-> TRUE, graph |-> TRUE, hot |-> TRUE],
         [set |-> TRUE, graph |-> TRUE, hot |-> FALSE]}
\* Execution contexts handed to the hot-update hook.
Contexts == {[name |-> "client", hasHot |-> TRUE], [name |-> "client", hasHot |-> FALSE],
             [name |-> "ssr", hasHot |-> TRUE]}
InitialDisk == [ver |-> 0]
NoArgs == [set |-> FALSE, modules |-> <<>>, defined |-> FALSE,
           grouped |-> Str(""), jsonText |-> <<>>]

\* Which log call of a step throws (0 = none); only a faulty logger throws.
LogFaults == IF logger = "faulty" THEN 0..3 ELSE {0}
Logged == IF logger = "none" THEN 0 ELSE 1

\* ------------------------------------------------------------------------
\* RebuildManager.rebuild
\* ------------------------------------------------------------------------
\* The call itself: performance.now(), then readAndGroup() is awaited.
NewRebuild(kind, owner, mods, window, waited) ==
    [pc |-> "read", kind |-> kind, owner |-> owner, modules |-> mods,
     window |-> window, waited |-> waited,
     readDisk |-> InitialDisk, grouped |-> Str(""), jsonText |-> <<>>,
     modulesResult |-> <<>>, resultDefined |-> FALSE,
     reads |-> 1, gens |-> 0, invs |-> 0, invAll |-> 0, reloads |-> 0,
     warns |-> 0, infos |-> 0, cbs |-> 0, cbArg |-> NoArgs, ret |-> NoArgs,
     err |-> "none"]

\* Canonicalize once and cache.
CanonicalRawText(raw) ==
    [grouped |-> canonicalize(raw), jsonText |-> JSONStringify(raw)]
CanonicalSkipped(raw) ==
    [grouped |-> raw, jsonText |-> JSONStringify(raw)]
Canonical(raw) ==
    [grouped |-> canonicalize(raw), jsonText |-> JSONStringify(canonicalize(raw))]

\* The plugin's completion callback: swap in the new RebuildCache.
OnRebuildComplete(arg, writer) ==
    [grouped |-> arg.grouped, jsonText |-> arg.jsonText, writer |-> writer]

InitialCache ==
    OnRebuildComplete(Canonical(DiskTree(InitialDisk)), 0)

Rejected(r, e) == [r EXCEPT !.pc = "failed", !.err = e]

\* How the promise of the debouncedRebuild call that owns rebuild r settles.
SettlePromises(r, ok) ==
    IF r.kind = "now"
    THEN [promises EXCEPT ![r.owner] = IF ok THEN "resolved" ELSE "rejected"]
    ELSE IF r.kind = "timer" /\ ok
    THEN [promises EXCEPT ![r.owner] = "resolved"]
    ELSE promises

\* The dispatcher's decision for one context once the messages are known.
hotUpdateBroadcast(d, messages) ==
    LET payload == [event |-> "i18n-update", messages |-> messages]
    IN IF d.ctx = "client"
       THEN [d EXCEPT !.state = "done", !.ret = <<>>,
                      !.ctxSent = IF d.hasHot THEN <<payload>> ELSE <<>>,
                      !.wsSent = <<payload>>]
       ELSE [d EXCEPT !.state = "done", !.ret = d.modules]
hotUpdateEveryContext(d, messages) ==
    LET payload == [event |-> "i18n-update", messages |-> messages]
    IN [d EXCEPT !.state = "done",
                 !.ret = IF d.ctx = "client" THEN <<>> ELSE d.modules,
                 !.ctxSent = IF d.hasHot THEN <<payload>> ELSE <<>>,
                 !.wsSent = IF d.hasHot THEN <<>> ELSE <<payload>>]
hotUpdate(d, messages) ==
    LET payload == [event |-> "i18n-update", messages |-> messages]
    IN IF d.ctx = "client"
       THEN [d EXCEPT !.state = "done", !.ret = <<>>,
                      !.ctxSent = IF d.hasHot THEN <<payload>> ELSE <<>>,
                      !.wsSent = IF d.hasHot THEN <<>> ELSE <<payload>>]
       ELSE [d EXCEPT !.state = "done", !.ret = d.modules]

SettleDispatches(r, ok, newCache) ==
    IF r.kind # "hot" THEN dispatches
    ELSE IF ok
    THEN [dispatches EXCEPT ![r.owner] = hotUpdate(dispatches[r.owner], newCache.grouped)]
    ELSE [dispatches EXCEPT ![r.owner].state = "failed"]

\* A step of rebuild i that ends at an await.
Suspend(i, r) ==
    /\ rebuilds' = [rebuilds EXCEPT ![i] = r]
    /\ UNCHANGED <<cache, promises, dispatches>>

\* A step of rebuild i that ends the rebuild: returned (ok) or thrown.
Finish(i, r, ok, newCache) ==
    /\ rebuilds' = [rebuilds EXCEPT ![i] = r]
    /\ cache' = newCache
    /\ promises' = SettlePromises(r, ok)
    /\ dispatches' = SettleDispatches(r, ok, newCache)

Manager == <<now, lastRebuildCall, rebuildTimer, serverRef, resolvedVirtualId,
             environment, logger, windowCalls, burst, disk>>

\* readAndGroup resolved with `raw`: log, canonicalize, serialize, call generateFiles.
ReadOkNoAwait(i, raw, f) ==
    /\ rebuilds[i].pc = "read"
    /\ f <= 1
    /\ LET r == [rebuilds[i] EXCEPT !.readDisk = disk]
           c == Canonical(raw)
       IN IF f = 1
          THEN Finish(i, Rejected(r, "log"), FALSE, cache)
          ELSE Suspend(i, [r EXCEPT !.infos = @ + Logged, !.grouped = c.grouped,
                                    !.jsonText = c.jsonText, !.gens = @ + 1,
                                    !.invs = @ + 1, !.pc = "gen"])
    /\ UNCHANGED Manager
ReadOk(i, raw, f) ==
    /\ rebuilds[i].pc = "read"
    /\ f <= 1
    /\ LET r == [rebuilds[i] EXCEPT !.readDisk = disk]
           c == Canonical(raw)
       IN IF f = 1
          THEN Finish(i, Rejected(r, "log"), FALSE, cache)
          ELSE Suspend(i, [r EXCEPT !.infos = @ + Logged, !.grouped = c.grouped,
                                    !.jsonText = c.jsonText, !.gens = @ + 1,
                                    !.pc = "gen"])
    /\ UNCHANGED Manager

\* readAndGroup rejected: rebuild throws at its first await.
ReadFailNotifies(i) ==
    /\ rebuilds[i].pc = "read"
    /\ Finish(i, Rejected([rebuilds[i] EXCEPT !.cbs = @ + 1], "read"), FALSE,
              OnRebuildComplete(NoArgs, i))
    /\ UNCHANGED Manager
ReadFail(i) ==
    /\ rebuilds[i].pc = "read"
    /\ Finish(i, Rejected(rebuilds[i], "read"), FALSE, cache)
    /\ UNCHANGED Manager

\* After invalidateModule returned `res`: callback, final log, return.
CompleteMixedPair(i, r, res, defined, throws) ==
    LET arg == [set |-> TRUE, modules |-> res, defined |-> defined,
                grouped |-> r.grouped, jsonText |-> cache.jsonText]
        r2 == [r EXCEPT !.modulesResult = res, !.resultDefined = defined,
                        !.cbs = @ + 1, !.cbArg = arg]
        newCache == OnRebuildComplete(arg, i)
    IN IF throws
       THEN Finish(i, Rejected(r2, "log"), FALSE, newCache)
       ELSE Finish(i, [r2 EXCEPT !.pc = "done", !.infos = @ + Logged,
                                 !.ret = [arg EXCEPT !.modules = IF defined THEN res ELSE <<>>,
                                                     !.defined = TRUE]],
                   TRUE, newCache)
CompleteReturnsInput(i, r, res, defined, throws) ==
    LET arg == [set |-> TRUE, modules |-> res, defined |-> defined,
                grouped |-> r.grouped, jsonText |-> r.jsonText]
        r2 == [r EXCEPT !.modulesResult = res, !.resultDefined = defined,
                        !.cbs = @ + 1, !.cbArg = arg]
        newCache == OnRebuildComplete(arg, i)
    IN IF throws
       THEN Finish(i, Rejected(r2, "log"), FALSE, newCache)
       ELSE Finish(i, [r2 EXCEPT !.pc = "done", !.infos = @ + Logged,
                                 !.ret = [arg EXCEPT !.modules = r.modules,
                                                     !.defined = TRUE]],
                   TRUE, newCache)
Complete(i, r, res, defined, throws) ==
    LET arg == [set |-> TRUE, modules |-> res, defined |-> defined,
                grouped |-> r.grouped, jsonText |-> r.jsonText]
        r2 == [r EXCEPT !.modulesResult = res, !.resultDefined = defined,
                        !.cbs = @ + 1, !.cbArg = arg]
        newCache == OnRebuildComplete(arg, i)
    IN IF throws
       THEN Finish(i, Rejected(r2, "log"), FALSE, newCache)
       ELSE Finish(i, [r2 EXCEPT !.pc = "done", !.infos = @ + Logged,
                                 !.ret = [arg EXCEPT !.modules = IF defined THEN res ELSE <<>>,
                                                     !.defined = TRUE]],
                   TRUE, newCache)

\* `if (mod)` on the filtered array.
Truthy(mod) == TRUE

\* generateFiles resolved: log, then invalidateModule up to its first await.
GenOkUnguarded(i, f) ==
    /\ rebuilds[i].pc = "gen"
    /\ LET r == rebuilds[i]
           r1 == [r EXCEPT !.infos = @ + Logged, !.invs = @ + 1]
           mod == Filter(r.modules, resolvedVirtualId)
       IN IF f = 1
          THEN Finish(i, Rejected(r, "log"), FALSE, cache)
          ELSE /\ f = 0
               /\ Suspend(i, [r1 EXCEPT !.modulesResult = mod, !.pc = "inval",
                                        !.invAll = @ + (IF environment.set /\ environment.graph
                                                        THEN 1 ELSE 0)])
    /\ UNCHANGED Manager
GenOk(i, f) ==
    /\ rebuilds[i].pc = "gen"
    /\ LET r == rebuilds[i]
           r1 == [r EXCEPT !.infos = @ + Logged, !.invs = @ + 1]
           mod == Filter(r.modules, resolvedVirtualId)
       IN IF f = 1
          THEN Finish(i, Rejected(r, "log"), FALSE, cache)
          ELSE IF ~serverRef \/ resolvedVirtualId = <<>>
          THEN IF f = 2
               THEN Finish(i, Rejected(r1, "log"), FALSE, cache)
               ELSE Complete(i, [r1 EXCEPT !.warns = @ + Logged], <<>>, FALSE, f = 3)
          ELSE /\ f = 0
               /\ IF Truthy(mod)
                  THEN Suspend(i, [r1 EXCEPT !.modulesResult = mod, !.pc = "inval",
                                             !.invAll = @ + (IF environment.set /\ environment.graph
                                                             THEN 1 ELSE 0)])
                  ELSE Complete(i, [r1 EXCEPT !.warns = @ + Logged], mod, TRUE, FALSE)
    /\ UNCHANGED Manager

\* generateFiles rejected.
GenFailCaches(i) ==
    /\ rebuilds[i].pc = "gen"
    /\ Finish(i, Rejected(rebuilds[i], "gen"), FALSE,
              OnRebuildComplete(rebuilds[i], i))
    /\ UNCHANGED Manager
GenFail(i) ==
    /\ rebuilds[i].pc = "gen"
    /\ Finish(i, Rejected(rebuilds[i], "gen"), FALSE, cache)
    /\ UNCHANGED Manager

\* invalidateAll resolved: full-reload, log, return mod; then the rest of rebuild.
InvalDone(i, f) ==
    /\ rebuilds[i].pc = "inval"
    /\ f <= 2
    /\ LET r == rebuilds[i]
           r1 == [r EXCEPT !.reloads = @ + (IF environment.set /\ environment.hot
                                            THEN 1 ELSE 0)]
       IN IF f = 1
          THEN Finish(i, Rejected(r1, "log"), FALSE, cache)
          ELSE Complete(i, [r1 EXCEPT !.infos = @ + Logged], r.modulesResult, TRUE, f = 2)
    /\ UNCHANGED Manager

RebuildStep ==
    \E i \in 1..Len(rebuilds) :
        \/ \E raw \in readAndGroup(disk), f \in LogFaults : ReadOk(i, raw, f)
        \/ ReadFail(i)
        \/ \E f \in LogFaults : GenOk(i, f)
        \/ GenFail(i)
        \/ \E f \in LogFaults : InvalDone(i, f)

\* ------------------------------------------------------------------------
\* RebuildManager.setServer / setEnv
\* ------------------------------------------------------------------------
SetServer(vid) ==
    /\ serverRef' = TRUE
    /\ resolvedVirtualId' = vid
    /\ UNCHANGED <<now, lastRebuildCall, rebuildTimer, environment, logger, promises,
                   windowCalls, burst, rebuilds, cache, disk, dispatches>>

SetEnv(env) ==
    /\ environment' = env
    /\ UNCHANGED <<now, lastRebuildCall, rebuildTimer, serverRef, resolvedVirtualId,
                   logger, promises, windowCalls, burst, rebuilds, cache, disk,
                   dispatches>>

\* ------------------------------------------------------------------------
\* RebuildManager.debouncedRebuild
\* ------------------------------------------------------------------------
MaxWaitExceededEarly(t, first) == t - first >= DEBOUNCE_MS
MaxWaitExceeded(t, first) == t - first >= MAX_WAIT_MS

\* Bookkeeping of the run of calls each less than DEBOUNCE_MS after the previous.
\* Triggers are delivered at distinct instants.
NextBurst ==
    IF burst.calls > 0 /\ now - burst.last < DEBOUNCE_MS
    THEN [burst EXCEPT !.calls = @ + 1, !.last = now]
    ELSE [calls |-> 1, first |-> now, last |-> now, base |-> Len(rebuilds)]

\* A timer that is due runs before any trigger delivered at that instant.
TimerDue == rebuildTimer.armed /\ now >= rebuildTimer.due

DebouncedRebuildNoRearm(mods) ==
    /\ Len(promises) < MaxCalls
    /\ Len(rebuilds) < MaxRebuilds
    /\ ~TimerDue
    /\ burst.calls = 0 \/ now > burst.last
    /\ LET id == Len(promises) + 1
           first == IF lastRebuildCall = 0 THEN now ELSE lastRebuildCall
           win == windowCalls \cup {id}
       IN /\ promises' = Append(promises, "pending")
          /\ burst' = NextBurst
          /\ IF MaxWaitExceeded(now, first)
             THEN /\ lastRebuildCall' = 0
                  /\ rebuildTimer' = NoTimer
                  /\ windowCalls' = {}
                  /\ rebuilds' = Append(rebuilds, NewRebuild("now", id, mods, win, now - first))
             ELSE /\ lastRebuildCall' = first
                  /\ rebuildTimer' = IF rebuildTimer.armed
                                     THEN NoTimer
                                     ELSE [armed |-> TRUE, due |-> now + DEBOUNCE_MS,
                                           call |-> id, modules |-> mods]
                  /\ windowCalls' = win
                  /\ UNCHANGED rebuilds
    /\ UNCHANGED <<now, serverRef, resolvedVirtualId, environment, logger, cache, disk,
                   dispatches>>
DebouncedRebuild(mods) ==
    /\ Len(promises) < MaxCalls
    /\ Len(rebuilds) < MaxRebuilds
    /\ ~TimerDue
    /\ burst.calls = 0 \/ now > burst.last
    /\ LET id == Len(promises) + 1
           first == IF lastRebuildCall = 0 THEN now ELSE lastRebuildCall
           win == windowCalls \cup {id}
       IN /\ promises' = Append(promises, "pending")
          /\ burst' = NextBurst
          /\ IF MaxWaitExceeded(now, first)
             THEN /\ lastRebuildCall' = 0
                  /\ rebuildTimer' = NoTimer
                  /\ windowCalls' = {}
                  /\ rebuilds' = Append(rebuilds, NewRebuild("now", id, mods, win, now - first))
             ELSE /\ lastRebuildCall' = first
                  /\ rebuildTimer' = [armed |-> TRUE, due |-> now + DEBOUNCE_MS,
                                      call |-> id, modules |-> mods]
                  /\ windowCalls' = win
                  /\ UNCHANGED rebuilds
    /\ UNCHANGED <<now, serverRef, resolvedVirtualId, environment, logger, cache, disk,
                   dispatches>>

\* The setTimeout callback.
TimerFireKeepsWindow ==
    /\ TimerDue
    /\ rebuildTimer' = NoTimer
    /\ windowCalls' = {}
    /\ rebuilds' = Append(rebuilds, NewRebuild("timer", rebuildTimer.call, rebuildTimer.modules,
                                               windowCalls, now - lastRebuildCall))
    /\ UNCHANGED <<now, lastRebuildCall, serverRef, resolvedVirtualId, environment, logger,
                   promises, burst, cache, disk, dispatches>>
TimerFire ==
    /\ TimerDue
    /\ lastRebuildCall' = 0
    /\ rebuildTimer' = NoTimer
    /\ windowCalls' = {}
    /\ rebuilds' = Append(rebuilds, NewRebuild("timer", rebuildTimer.call, rebuildTimer.modules,
                                               windowCalls, now - lastRebuildCall))
    /\ UNCHANGED <<now, serverRef, resolvedVirtualId, environment, logger, promises,
                   burst, cache, disk, dispatches>>

\* Time passes, up to the armed timer's deadline: to the last instant before
\* it, or to it.  With no timer armed the clock moves only until the run of
\* calls has been quiet for DEBOUNCE_MS.
TickSteps ==
    IF rebuildTimer.armed
    THEN {rebuildTimer.due - 1 - now, rebuildTimer.due - now}
    ELSE IF burst.calls > 0 /\ now - burst.last < DEBOUNCE_MS
    THEN {DEBOUNCE_MS - 1, DEBOUNCE_MS}
    ELSE {}

Tick ==
    /\ \E d \in TickSteps :
          /\ d > 0
          /\ now + d <= MaxTime
          /\ now' = now + d
    /\ UNCHANGED <<lastRebuildCall, rebuildTimer, serverRef, resolvedVirtualId, environment,
                   logger, promises, windowCalls, burst, rebuilds, cache, disk,
                   dispatches>>

\* ------------------------------------------------------------------------
\* Direct rebuilds, file edits, hot-update dispatch, virtual-module load
\* ------------------------------------------------------------------------
Rebuild(mods) ==
    /\ Len(rebuilds) < MaxRebuilds
    /\ rebuilds' = Append(rebuilds, NewRebuild("direct", 0, mods, {}, 0))
    /\ UNCHANGED <<now, lastRebuildCall, rebuildTimer, serverRef, resolvedVirtualId,
                   environment, logger, promises, windowCalls, burst, cache, disk,
                   dispatches>>

\* The developer saves the locale file with a new greeting.
EditFile ==
    /\ disk.ver < MaxEdits
    /\ disk' = [disk EXCEPT !.ver = @ + 1]
    /\ UNCHANGED <<now, lastRebuildCall, rebuildTimer, serverRef, resolvedVirtualId,
                   environment, logger, promises, windowCalls, burst, rebuilds, cache,
                   dispatches>>

\* The host's hotUpdate hook for one context: recompute the messages first.
HotUpdate(ctx, hasHot, mods) ==
    /\ Len(rebuilds) < MaxRebuilds
    /\ dispatches' = Append(dispatches,
                            [ctx |-> ctx, hasHot |-> hasHot, modules |-> mods,
                             state |-> "running", ret |-> <<>>, ctxSent |-> <<>>,
                             wsSent |-> <<>>,
                             rb |-> Len(rebuilds) + 1])
    /\ rebuilds' = Append(rebuilds, NewRebuild("hot", Len(dispatches) + 1, mods, {}, 0))
    /\ UNCHANGED <<now, lastRebuildCall, rebuildTimer, serverRef, resolvedVirtualId,
                   environment, logger, promises, windowCalls, burst, cache, disk>>

\* ------------------------------------------------------------------------
\* Specifications
\* ------------------------------------------------------------------------
\* The manager right after construction, apart from its logger option.
Init ==
    /\ now = StartTime
    /\ lastRebuildCall = 0
    /\ rebuildTimer = NoTimer
    /\ serverRef = FALSE
    /\ resolvedVirtualId = <<>>
    /\ environment = NoEnv
    /\ promises = <<>>
    /\ windowCalls = {}
    /\ burst = [calls |-> 0, first |-> 0, last |-> 0, base |-> 0]
    /\ rebuilds = <<>>
    /\ cache = InitialCache
    /\ disk = InitialDisk
    /\ dispatches = <<>>

\* A dev server with a working logger.
InitLogging == Init /\ logger = "ok"

\* The dev server once configureServer has bound it to the manager.
InitServing ==
    /\ now = StartTime
    /\ lastRebuildCall = 0
    /\ rebuildTimer = NoTimer
    /\ serverRef = TRUE
    /\ resolvedVirtualId = VirtualId
    /\ environment = NoEnv
    /\ logger = "ok"
    /\ promises = <<>>
    /\ windowCalls = {}
    /\ burst = [calls |-> 0, first |-> 0, last |-> 0, base |-> 0]
    /\ rebuilds = <<>>
    /\ cache = InitialCache
    /\ disk = InitialDisk
    /\ dispatches = <<>>

\* Every logger configuration: none, or one whose calls may throw or not.
InitPipeline == Init /\ logger \in {"none", "faulty"}

\* The debounce machine; the watcher passes the nodes of the changed file.
Next ==
    \/ DebouncedRebuild(WatchedModules)
    \/ TimerFire
    \/ Tick
    \/ RebuildStep
    \/ SetServer(VirtualId)

Spec == InitLogging /\ [][Next]_vars

\* The same machine with its scheduling: a trigger arrives early enough for its
\* timer to come due within the horizon, time passes, and the event loop runs
\* a timer that is due.
Trigger(mods) ==
    /\ now + DEBOUNCE_MS <= MaxTime
    /\ DebouncedRebuild(mods)

NextLive ==
    \/ Trigger(WatchedModules)
    \/ TimerFire
    \/ Tick
    \/ RebuildStep
    \/ SetServer(VirtualId)

SpecLive ==
    /\ InitLogging
    /\ [][NextLive]_vars
    /\ WF_vars(Tick)
    /\ WF_vars(TimerFire)

\* rebuild() called directly, under every wiring.
NextPipeline ==
    \/ \E mods \in ModuleLists : Rebuild(mods)
    \/ RebuildStep
    \/ SetServer(VirtualId)
    \/ \E env \in Envs : SetEnv(env)

SpecPipeline == InitPipeline /\ [][NextPipeline]_vars

\* The hot-update hook, called per context as the locale file is saved.
NextHotUpdate ==
    \/ EditFile
    \/ \E ctx \in Contexts : HotUpdate(ctx.name, ctx.hasHot, TestModules)
    \/ RebuildStep

SpecHotUpdate == InitServing /\ [][NextHotUpdate]_vars

\* ------------------------------------------------------------------------
\* Properties
\* ------------------------------------------------------------------------
Rebuilds == 1..Len(rebuilds)
Dispatches == 1..Len(dispatches)
Debounced(i) == rebuilds[i].kind \in {"timer", "now"}
Computed(i) == rebuilds[i].pc \in {"gen", "inval", "done"} \/ rebuilds[i].gens > 0

\* Rebuilds started by the current run of calls.
BurstRebuilds == {i \in Rebuilds : i > burst.base /\ Debounced(i)}
\* The run has been followed by a quiet debounce window.
QuietBurst ==
    /\ burst.calls > 0
    /\ ~rebuildTimer.armed
    /\ now - burst.last >= DEBOUNCE_MS

\* C1 as stated: any number of calls, each less than DEBOUNCE_MS after the
\* previous one, followed by a quiet debounce window, runs the rebuild
\* pipeline exactly once.
C1_AnyBurstOneRebuild ==
    QuietBurst => Cardinality(BurstRebuilds) = 1

\* C1 amended: when in addition the last call of the run comes less than
\* MAX_WAIT_MS after its first, the run starts exactly one rebuild, which calls
\* readAndGroup once and generateFiles and invalidateModule at most once, each
\* exactly once when the rebuild completes.
C1_ShortBurstOneRebuild ==
    (QuietBurst /\ burst.last - burst.first < MAX_WAIT_MS)
        => /\ Cardinality(BurstRebuilds) = 1
           /\ \A i \in BurstRebuilds :
                 /\ rebuilds[i].reads = 1
                 /\ rebuilds[i].gens <= 1
                 /\ rebuilds[i].invs <= 1
                 /\ rebuilds[i].pc = "done"
                        => rebuilds[i].gens = 1 /\ rebuilds[i].invs = 1

C1_Witness ==
    /\ QuietBurst
    /\ burst.calls >= 3
    /\ burst.last - burst.first < MAX_WAIT_MS
    /\ \E i \in BurstRebuilds : rebuilds[i].pc = "done"

\* C2: under continuous triggering, the rebuild forced by the max-wait path
\* starts no later than MAX_WAIT_MS after the first trigger of its window.
C2_MaxWaitBound ==
    \A i \in Rebuilds : rebuilds[i].kind = "now" => rebuilds[i].waited <= MAX_WAIT_MS

\* C3: once the single rebuild of a coalesced window has completed, the promise
\* of every debouncedRebuild call of that window is resolved.
C3_FanOut ==
    \A i \in Rebuilds :
        (Debounced(i) /\ rebuilds[i].pc = "done")
            => \A c \in rebuilds[i].window : promises[c] = "resolved"

\* C4: when readAndGroup or generateFiles fails in a rebuild started by
\* debouncedRebuild, the caller's promise is rejected, on the max-wait path and
\* on the timer path alike.
C4_ErrorReachesCaller ==
    \A i \in Rebuilds :
        (Debounced(i) /\ rebuilds[i].pc = "failed" /\ rebuilds[i].err \in {"read", "gen"})
            => promises[rebuilds[i].owner] = "rejected"

\* C5: a completed dispatch for context "client" returns no modules and sends
\* exactly one i18n-update in total: on the context's channel when it has one
\* (nothing on the global channel), on the global channel otherwise.
C5_ClientDispatch ==
    \A k \in Dispatches :
        LET d == dispatches[k]
        IN (d.state = "done" /\ d.ctx = "client")
              => /\ d.ret = <<>>
                 /\ Len(d.ctxSent) + Len(d.wsSent) = 1
                 /\ d.hasHot => Len(d.ctxSent) = 1 /\ d.wsSent = <<>>
                 /\ ~d.hasHot => Len(d.wsSent) = 1 /\ d.ctxSent = <<>>
                 /\ \A e \in 1..Len(d.ctxSent) : d.ctxSent[e].event = "i18n-update"
                 /\ \A e \in 1..Len(d.wsSent) : d.wsSent[e].event = "i18n-update"

C5_Witness ==
    /\ \E k \in Dispatches :
          dispatches[k].state = "done" /\ dispatches[k].ctx = "client" /\ dispatches[k].hasHot
    /\ \E k \in Dispatches :
          dispatches[k].state = "done" /\ dispatches[k].ctx = "client" /\ ~dispatches[k].hasHot

\* C6: a completed dispatch for any context other than "client" sends nothing
\* on the context channel or the global channel and returns the event's
\* module list unchanged.
C6_OtherContextDispatch ==
    \A k \in Dispatches :
        LET d == dispatches[k]
        IN (d.state = "done" /\ d.ctx # "client")
              => /\ d.ctxSent = <<>>
                 /\ d.wsSent = <<>>
                 /\ d.ret = d.modules

C6_Witness ==
    \E k \in Dispatches :
        /\ dispatches[k].state = "done"
        /\ dispatches[k].ctx = "ssr"
        /\ dispatches[k].hasHot
        /\ dispatches[k].modules # <<>>

C8_NoMatchWarnsAndReturnsInput ==
    \A i \in Rebuilds :
        LET r == rebuilds[i]
        IN (r.pc = "done" /\ r.resultDefined /\ Filter(r.modules, VirtualId) = <<>>)
              => /\ logger # "none" => r.warns >= 1
                 /\ r.ret.modules = r.modules

\* C9: rebuilds that read the same tree from disk, in whatever insertion
\* order readAndGroup delivered it, hold equal grouped documents and identical
\* jsonText.
C9_OrderIndependent ==
    \A i, j \in Rebuilds :
        (Computed(i) /\ Computed(j) /\ rebuilds[i].readDisk = rebuilds[j].readDisk)
            => /\ rebuilds[i].grouped = rebuilds[j].grouped
               /\ rebuilds[i].jsonText = rebuilds[j].jsonText

C9_Witness ==
    /\ Cardinality(readAndGroup(disk)) > 1
    /\ \E i, j \in Rebuilds :
          /\ i # j
          /\ rebuilds[i].pc = "done"
          /\ rebuilds[j].pc = "done"
          /\ rebuilds[i].readDisk = rebuilds[j].readDisk

\* C10: a rebuild whose readAndGroup failed has called neither generateFiles
\* nor invalidateModule, invalidated no graph, sent no full-reload, not invoked
\* the completion callback, and has not written the RebuildCache.
C10_ReadFailureAborts ==
    \A i \in Rebuilds :
        (rebuilds[i].pc = "failed" /\ rebuilds[i].err = "read")
            => /\ rebuilds[i].gens = 0
               /\ rebuilds[i].invs = 0
               /\ rebuilds[i].invAll = 0
               /\ rebuilds[i].reloads = 0
               /\ rebuilds[i].cbs = 0
               /\ cache.writer # i

C10_Witness ==
    \E i, j \in Rebuilds :
        /\ rebuilds[i].pc = "failed"
        /\ rebuilds[i].err = "read"
        /\ rebuilds[j].pc = "done"
        /\ cache.writer = j

\* C11: a rebuild that reached invalidateModule while no server is bound (and
\* whose logger calls returned) has completed: it logged a warning when a
\* logger is configured, invalidated no graph, sent no full-reload, invoked the
\* completion callback once and returned its result.
C11_UnboundDegrades ==
    \A i \in Rebuilds :
        LET r == rebuilds[i]
        IN (~serverRef /\ r.invs >= 1 /\ r.err # "log")
              => /\ r.pc = "done"
                 /\ logger # "none" => r.warns = 1
                 /\ r.invAll = 0
                 /\ r.reloads = 0
                 /\ r.cbs = 1
                 /\ r.ret.set
                 /\ r.ret.grouped = r.grouped
                 /\ r.ret.jsonText = r.jsonText

C11_Witness ==
    \E i \in Rebuilds :
        /\ ~serverRef
        /\ environment.set
        /\ rebuilds[i].pc = "done"
        /\ rebuilds[i].warns = 1

\* C12: a rebuild has invalidated the module graph or sent a full-reload only
\* if some module of its list matches the tracked virtual id.
C12_InvalidateOnlyOnMatch ==
    \A i \in Rebuilds :
        (rebuilds[i].invAll > 0 \/ rebuilds[i].reloads > 0)
            => Filter(rebuilds[i].modules, VirtualId) # <<>>

\* C13: the phases of a rebuild are strictly ordered: nothing is canonicalized
\* or generated while readAndGroup is awaited, nothing is invalidated and no
\* callback runs while generateFiles is awaited, no callback runs while the
\* graph invalidation is awaited, and a completed rebuild ran each phase once.
C13_PhaseOrder ==
    \A i \in Rebuilds :
        LET r == rebuilds[i]
        IN /\ r.reads = 1
           /\ r.pc = "read"
                 => r.jsonText = <<>> /\ r.gens = 0 /\ r.invs = 0 /\ r.invAll = 0
                    /\ r.reloads = 0 /\ r.cbs = 0
           /\ r.pc = "gen"
                 => r.jsonText = JSONStringify(r.grouped) /\ r.gens = 1 /\ r.invs = 0
                    /\ r.invAll = 0 /\ r.reloads = 0 /\ r.cbs = 0
           /\ r.pc = "inval" => r.gens = 1 /\ r.invs = 1 /\ r.reloads = 0 /\ r.cbs = 0
           /\ r.pc = "done" => r.gens = 1 /\ r.invs = 1 /\ r.cbs = 1
           /\ r.cbs > 0 => r.invs = 1
           /\ r.invs > 0 => r.gens = 1
           /\ r.gens > 0 => r.jsonText = JSONStringify(r.grouped)

C13_Witness ==
    \E i \in Rebuilds :
        /\ rebuilds[i].pc = "done"
        /\ rebuilds[i].invAll = 1
        /\ rebuilds[i].reloads = 1
        /\ rebuilds[i].modulesResult # <<>>

\* C14 as stated: the triple a completed rebuild returns is the triple it
\* passed to the completion callback, in every wiring state.
C14_SameTriple ==
    \A i \in Rebuilds : rebuilds[i].pc = "done" => rebuilds[i].ret = rebuilds[i].cbArg

\* C14 amended: grouped and jsonText are the same in both; modules is the same
\* list when server and virtual id are bound, and otherwise the callback gets
\* modules undefined while the caller gets the empty list.
C14_SameDocumentModulesDefaulted ==
    \A i \in Rebuilds :
        LET r == rebuilds[i]
        IN r.pc = "done"
              => /\ r.cbArg.set /\ r.ret.set
                 /\ r.ret.grouped = r.cbArg.grouped
                 /\ r.ret.jsonText = r.cbArg.jsonText
                 /\ r.ret.defined
                 /\ r.resultDefined
                       => r.cbArg.defined /\ r.ret.modules = r.cbArg.modules
                 /\ ~r.resultDefined => ~r.cbArg.defined /\ r.ret.modules = <<>>

C14_Witness ==
    /\ \E i \in Rebuilds : rebuilds[i].pc = "done" /\ ~rebuilds[i].resultDefined
    /\ \E i \in Rebuilds :
          /\ rebuilds[i].pc = "done"
          /\ rebuilds[i].resultDefined
          /\ rebuilds[i].ret.modules # <<>>
          /\ rebuilds[i].ret.modules # rebuilds[i].modules

\* C15: no rebuild is aborted by a logger call that throws.
C15_LoggingNeverAborts ==
    \A i \in Rebuilds : ~(rebuilds[i].pc = "failed" /\ rebuilds[i].err = "log")

GenFailed(i) == rebuilds[i].pc = "failed" /\ rebuilds[i].err = "gen"
Running(i) == rebuilds[i].pc \in {"read", "gen", "inval"}

\* C16 as stated: after generateFiles failed in a rebuild (and before any
\* other rebuild has written it), the RebuildCache holds the canonical
\* document and text computed in that rebuild.
C16_CacheAheadAfterGenFailure ==
    \A i \in Rebuilds :
        (GenFailed(i) /\ \A j \in Rebuilds \ {i} : rebuilds[j].cbs = 0)
            => /\ cache.grouped = rebuilds[i].grouped
               /\ cache.jsonText = rebuilds[i].jsonText

\* C16 amended: a rebuild whose generateFiles failed has computed the canonical
\* document and text of what it read, but has neither invoked the completion
\* callback nor written the RebuildCache.
C16_CacheKeptAfterGenFailure ==
    \A i \in Rebuilds :
        GenFailed(i)
            => /\ rebuilds[i].jsonText = JSONStringify(rebuilds[i].grouped)
               /\ GetPath(rebuilds[i].grouped, GreetingPath)
                      = Str(GreetingText(rebuilds[i].readDisk.ver))
               /\ rebuilds[i].cbs = 0
               /\ cache.writer # i

C16_Witness ==
    \E i \in Rebuilds :
        /\ GenFailed(i)
        /\ rebuilds[i].readDisk.ver > 0
        /\ cache.grouped # rebuilds[i].grouped

\* C17: in every state the RebuildCache is a whole pair: its jsonText is the
\* serialization of its own document, and both are the initial build's or the
\* ones a single rebuild passed to its completion callback.
C17_CachePairWhole ==
    /\ cache.jsonText = JSONStringify(cache.grouped)
    /\ cache.writer = 0 => cache = InitialCache
    /\ cache.writer # 0
          => /\ cache.writer \in Rebuilds
             /\ rebuilds[cache.writer].cbs = 1
             /\ cache.grouped = rebuilds[cache.writer].grouped
             /\ cache.jsonText = rebuilds[cache.writer].jsonText

C17_Witness ==
    /\ cache.writer # 0
    /\ \E j \in Rebuilds :
          /\ j # cache.writer
          /\ rebuilds[j].pc \in {"gen", "inval"}
          /\ rebuilds[j].grouped # cache.grouped

\* C18: at most one rebuild started by debouncedRebuild is running (awaiting
\* readAndGroup, generateFiles or invalidation) at any time.
C18_OneRunning ==
    Cardinality({i \in Rebuilds : Debounced(i) /\ Running(i)}) <= 1

\* C19: once every started rebuild has finished, the RebuildCache holds the
\* result of the rebuild that read the files last: no completed rebuild read a
\* newer version of the files than the one whose result is cached.
C19_LastReadWins ==
    ((\A i \in Rebuilds : ~Running(i)) /\ cache.writer # 0)
        => \A j \in Rebuilds :
              rebuilds[j].pc = "done"
                  => rebuilds[j].readDisk.ver <= rebuilds[cache.writer].readDisk.ver

\* Calls that no rebuild started at or after them has covered yet.
Uncovered ==
    {c \in 1..Len(promises) : \A i \in Rebuilds : c \notin rebuilds[i].window}

\* C20: no trigger is lost: whenever some debouncedRebuild call has not been
\* followed by the start of a rebuild, eventually every call made so far has
\* been followed by one.
C20_NoTriggerLost == (Uncovered # {}) ~> (Uncovered = {})

C20_Witness ==
    /\ Uncovered = {}
    /\ \E i \in Rebuilds :
          /\ rebuilds[i].kind = "timer"
          /\ Cardinality(rebuilds[i].window) >= 2

\* C21: between operations the pending-window start is set exactly when a
\* debounce timer is armed and unfired; an armed timer belongs to the last call
\* of a non-empty window that started no later than that call, and with no
\* timer armed no window is pending.
C21_WindowIffTimer ==
    /\ (lastRebuildCall # 0) <=> rebuildTimer.armed
    /\ rebuildTimer.armed
          => /\ rebuildTimer.call \in windowCalls
             /\ rebuildTimer.call = Len(promises)
             /\ lastRebuildCall <= rebuildTimer.due - DEBOUNCE_MS
    /\ ~rebuildTimer.armed => windowCalls = {}

C21_Witness ==
    /\ rebuildTimer.armed
    /\ lastRebuildCall # 0
    /\ \E i \in Rebuilds : rebuilds[i].kind = "now"
====
